---- MODULE Spec2Model ----
(***************************************************************************)
(* A model of ldap_hunter.py: one run of main() over a small file system.  *)
(* Text is modelled character by character: a string is a sequence of      *)
(* one-character strings, so that split, strip, lower, the substring test  *)
(* and sorted() are computed rather than assumed.                          *)
(***************************************************************************)
EXTENDS Integers, Sequences, FiniteSets, TLC

VARIABLES pc, fs, args, f, extract_attributes, attributes, interesting,
          console, trace, lost, fs0

vars == <<pc, fs, args, f, extract_attributes, attributes, interesting,
          console, trace, lost, fs0>>

(* ------------------------------ characters ------------------------------ *)

UpperCase == <<"A", "B", "C", "D", "E", "F", "G", "H", "I", "J", "K", "L", "M", "N", "O", "P", "Q", "R", "S", "T", "U", "V", "W", "X", "Y", "Z">>

LowerCase == <<"a", "b", "c", "d", "e", "f", "g", "h", "i", "j", "k", "l", "m", "n", "o", "p", "q", "r", "s", "t", "u", "v", "w", "x", "y", "z">>

IndexIn(s, c) == CHOOSE i \in 1..Len(s) : s[i] = c

IsUpper(c) == \E i \in 1..Len(UpperCase) : UpperCase[i] = c

IsLower(c) == \E i \in 1..Len(LowerCase) : LowerCase[i] = c

\* The code point of a character: Python compares str values by code point.
CodePoint(c) ==
    IF IsUpper(c) THEN 64 + IndexIn(UpperCase, c)
    ELSE IF IsLower(c) THEN 96 + IndexIn(LowerCase, c)
    ELSE CASE c = "\t" -> 9
           [] c = "\n" -> 10
           [] c = " " -> 32
           [] c = "#" -> 35
           [] c = "1" -> 49
           [] c = ":" -> 58

\* str.isspace() on the characters of the model's alphabet.
IsSpace(c) == c \in {" ", "\t", "\n"}

\* str.lower() on one character.
LowerChar(c) == IF IsUpper(c) THEN LowerCase[IndexIn(UpperCase, c)] ELSE c

\* attr.lower()
Lower(s) == [i \in 1..Len(s) |-> LowerChar(s[i])]

\* keyword in s
Contains(sub, s) ==
    \E i \in 0..(Len(s) - Len(sub)) : SubSeq(s, i + 1, i + Len(sub)) = sub

\* s.startswith(p)
StartsWith(s, p) == Len(s) >= Len(p) /\ SubSeq(s, 1, Len(p)) = p

\* s < t for two str values: lexicographic by code point.
RECURSIVE StrLess(_, _)
StrLess(s, t) ==
    IF t = <<>> THEN FALSE
    ELSE IF s = <<>> THEN TRUE
    ELSE IF Head(s) = Head(t) THEN StrLess(Tail(s), Tail(t))
    ELSE CodePoint(Head(s)) < CodePoint(Head(t))

\* line.split(':', 1)[0]: the text before the first colon, the whole line
\* when it has none.
RECURSIVE SplitFirst(_)
SplitFirst(line) ==
    IF line = <<>> THEN <<>>
    ELSE IF Head(line) = ":" THEN <<>>
    ELSE <<Head(line)>> \o SplitFirst(Tail(line))

RECURSIVE LStrip(_)
LStrip(s) ==
    IF s = <<>> THEN <<>>
    ELSE IF IsSpace(Head(s)) THEN LStrip(Tail(s))
    ELSE s

RECURSIVE RStrip(_)
RStrip(s) ==
    IF s = <<>> THEN <<>>
    ELSE IF IsSpace(s[Len(s)]) THEN RStrip(SubSeq(s, 1, Len(s) - 1))
    ELSE s

\* str.strip()
Strip(s) == RStrip(LStrip(s))

\* Iterating a text file: each line keeps its "\n"; the last line may have
\* none.
RECURSIVE SplitLinesFrom(_, _, _)
SplitLinesFrom(s, start, i) ==
    IF i > Len(s) THEN (IF start > Len(s) THEN <<>> ELSE <<SubSeq(s, start, Len(s))>>)
    ELSE IF s[i] = "\n" THEN <<SubSeq(s, start, i)>> \o SplitLinesFrom(s, i + 1, i + 1)
    ELSE SplitLinesFrom(s, start, i + 1)

SplitLines(s) == SplitLinesFrom(s, 1, 1)

\* sorted() of a list of str, by insertion.
RECURSIVE Insert(_, _)
Insert(x, l) ==
    IF l = <<>> THEN <<x>>
    ELSE IF StrLess(x, Head(l)) THEN <<x>> \o l
    ELSE <<Head(l)>> \o Insert(x, Tail(l))

RECURSIVE Sorted(_)
Sorted(l) == IF l = <<>> THEN <<>> ELSE Insert(Head(l), Sorted(Tail(l)))

\* The orders in which a for loop may visit the members of a set.
Orderings(S) ==
    {o \in [1..Cardinality(S) -> S] : \A i, j \in 1..Cardinality(S) : o[i] = o[j] => i = j}

(* ------------------------------ the program ----------------------------- *)

\* find_interesting_attributes: the fixed keyword list.
keywords ==
    << <<"c", "a", "s", "c", "a", "d", "e">>, <<"l", "e", "g", "a", "c", "y">>, <<"p", "w", "d">>, <<"p", "a", "s", "s", "w", "o", "r", "d">>, <<"s", "e", "c", "r", "e", "t">>, <<"c", "r", "e", "d">>,
       <<"h", "a", "s", "h">>, <<"k", "e", "y">>, <<"b", "a", "c", "k", "u", "p">>, <<"a", "d", "m", "i", "n">>, <<"s", "e", "r", "v", "i", "c", "e">>, <<"o", "l", "d">>, <<"t", "e", "m", "p">> >>

\* Mutant: the comment test is missing.
LineSkippedNoComment(line) == ~Contains(<<":">>, line)

\* Mutant: the comment test is applied to the stripped line.
LineSkippedStripped(line) == ~Contains(<<":">>, line) \/ StartsWith(Strip(line), <<"#">>)

\* extract_ldap_attributes: the test that skips a line.
LineSkipped(line) == ~Contains(<<":">>, line) \/ StartsWith(line, <<"#">>)

\* Mutant: the name is taken without strip().
AttrOfUnstripped(line) == SplitFirst(line)

\* extract_ldap_attributes: the attribute name a line carries.
AttrOf(line) == Strip(SplitFirst(line))

\* extract_ldap_attributes: the body of the for loop, for one line.
ProcessLine(attrs, line) ==
    IF LineSkipped(line) THEN attrs
    ELSE IF AttrOf(line) # <<>> THEN attrs \cup {AttrOf(line)}
    ELSE attrs

\* extract_ldap_attributes on the lines of a file that is read without error.
RECURSIVE ExtractAll(_, _)
ExtractAll(attrs, lines) ==
    IF lines = <<>> THEN attrs
    ELSE ExtractAll(ProcessLine(attrs, Head(lines)), Tail(lines))

\* Mutant: the keywords are looked for in attr, not in attr.lower().
AnyKeywordCaseSensitive(attr) == \E i \in 1..Len(keywords) : Contains(keywords[i], attr)

\* find_interesting_attributes: any(keyword in attr.lower() for keyword in keywords)
AnyKeyword(attr) == \E i \in 1..Len(keywords) : Contains(keywords[i], Lower(attr))

\* Mutant: the attribute is appended once for every keyword it contains.
RECURSIVE CollectPerKeyword(_)
CollectPerKeyword(order) ==
    IF order = <<>> THEN <<>>
    ELSE [i \in 1..Cardinality({n \in 1..Len(keywords) : Contains(keywords[n], Lower(Head(order)))})
            |-> Head(order)]
         \o CollectPerKeyword(Tail(order))

\* find_interesting_attributes: the loop that fills the list, visiting the
\* set in the given order.
Collect(order) == SelectSeq(order, AnyKeyword)

\* find_interesting_attributes: the returned list.
FindInteresting(order) == Sorted(Collect(order))

\* save_raw_output: the text written, one f.write per attribute.
RECURSIVE WriteLines(_)
WriteLines(l) ==
    IF l = <<>> THEN <<>> ELSE Head(l) \o <<"\n">> \o WriteLines(Tail(l))

\* if args.output: None and the empty string are both false.
OutputGiven(a) == a.output # <<>> /\ a.output[1] # ""

(* ------------------------------ the inputs ------------------------------ *)

MaxLines == 3

Paths == {"dump.ldif", "attrs.txt"}

\* The lines an input file is made of (without their line terminator).
LinePool ==
    { <<"c", "n", " ", ":", " ", "a", ":", "b">>,
      <<"m", "a", "i", "l">>,
      <<"\t", "a", "d", "m", "i", "n", ":">>,
      <<"A", "d", "m", "i", "n", "K", "e", "y", "B", "a", "c", "k", "u", "p", ":", " ", "1">>,
      <<" ", "#", "k", "e", "y", ":", " ", "v">>,
      <<"#", "p", "w", "d", ":", " ", "x">>,
      <<" ", " ", ":", " ", "v">> }

LineSeqs == UNION {[1..n -> LinePool] : n \in 0..MaxLines}

\* The text of a file with the given lines; the last line has a terminator
\* only when nl holds.
RECURSIVE Join(_, _)
Join(lines, nl) ==
    IF lines = <<>> THEN <<>>
    ELSE IF Len(lines) = 1 THEN Head(lines) \o (IF nl THEN <<"\n">> ELSE <<>>)
    ELSE Head(lines) \o <<"\n">> \o Join(Tail(lines), nl)

InputTexts == {Join(ls, nl) : ls \in LineSeqs, nl \in BOOLEAN}

Missing == [exists |-> FALSE, data |-> <<>>]

File(text) == [exists |-> TRUE, data |-> text]

OldOutput == <<"z", "z", "\n", "o", "l", "d", "\n">>

\* The command lines and the output files they meet: no -o, -o "", -o naming
\* an existing file, a missing file, or the input file itself.
Runs ==
    { [output |-> <<>>, old |-> TRUE],
      [output |-> <<"">>, old |-> TRUE],
      [output |-> <<"attrs.txt">>, old |-> TRUE],
      [output |-> <<"attrs.txt">>, old |-> FALSE],
      [output |-> <<"dump.ldif">>, old |-> TRUE] }

Init ==
    /\ pc = "check"
    /\ \E text \in InputTexts, present \in BOOLEAN, r \in Runs :
          /\ fs = [p \in Paths |->
                     IF p = "dump.ldif"
                     THEN (IF present THEN File(text) ELSE Missing)
                     ELSE (IF r.old THEN File(OldOutput) ELSE Missing)]
          /\ args = [file |-> "dump.ldif", output |-> r.output]
    /\ f = <<>>
    /\ extract_attributes = {}
    /\ attributes = {}
    /\ interesting = <<>>
    /\ console = <<[msg |-> "banner"]>>
    /\ trace = <<>>
    /\ lost = {}
    /\ fs0 = fs

(* ------------------------------ the actions ----------------------------- *)

\* Mutant: the return after the "File not found" message is missing.
CheckExistsNoReturn ==
    /\ pc = "check"
    /\ IF ~fs[args.file].exists
       THEN console' = Append(console, [msg |-> "File not found", file |-> args.file])
       ELSE UNCHANGED console
    /\ pc' = "open"
    /\ UNCHANGED <<fs, args, f, extract_attributes, attributes, interesting, trace, lost, fs0>>

\* main: the existence check on the input path.
CheckExists ==
    /\ pc = "check"
    /\ IF ~fs[args.file].exists
       THEN /\ console' = Append(console, [msg |-> "File not found", file |-> args.file])
            /\ pc' = "done"
       ELSE /\ pc' = "open"
            /\ UNCHANGED console
    /\ UNCHANGED <<fs, args, f, extract_attributes, attributes, interesting, trace, lost, fs0>>

\* Mutant: the file is opened in a mode that truncates it.
ExtractOpenTruncating ==
    /\ pc = "open"
    /\ fs[args.file].exists
    /\ extract_attributes' = {}
    /\ f' = SplitLines(fs[args.file].data)
    /\ fs' = [fs EXCEPT ![args.file] = File(<<>>)]
    /\ trace' = Append(trace, "extract")
    /\ pc' = "scan"
    /\ UNCHANGED <<args, attributes, interesting, console, lost, fs0>>

\* extract_ldap_attributes: attributes = set() and a successful open().
ExtractOpen ==
    /\ pc = "open"
    /\ fs[args.file].exists
    /\ extract_attributes' = {}
    /\ f' = SplitLines(fs[args.file].data)
    /\ trace' = Append(trace, "extract")
    /\ pc' = "scan"
    /\ UNCHANGED <<fs, args, attributes, interesting, console, lost, fs0>>

\* extract_ldap_attributes: open() raises; the handler prints the error and
\* returns set().
ExtractOpenFail ==
    /\ pc = "open"
    /\ extract_attributes' = {}
    /\ trace' = trace \o <<"extract", "read error">>
    /\ console' = Append(console, [msg |-> "Error reading file"])
    /\ attributes' = {}
    /\ f' = <<>>
    /\ lost' = {}
    /\ pc' = "match"
    /\ UNCHANGED <<fs, args, interesting, fs0>>

\* extract_ldap_attributes: one iteration of the for loop.
ExtractLine ==
    /\ pc = "scan"
    /\ f # <<>>
    /\ extract_attributes' = ProcessLine(extract_attributes, Head(f))
    /\ f' = Tail(f)
    /\ UNCHANGED <<pc, fs, args, attributes, interesting, console, trace, lost, fs0>>

\* extract_ldap_attributes: the loop ends and the set is returned to main.
ExtractReturn ==
    /\ pc = "scan"
    /\ f = <<>>
    /\ attributes' = extract_attributes
    /\ extract_attributes' = {}
    /\ pc' = "match"
    /\ UNCHANGED <<fs, args, f, interesting, console, trace, lost, fs0>>

\* Mutant: the handler returns the attributes collected so far.
ExtractReadFailPartial ==
    /\ pc = "scan"
    /\ trace' = Append(trace, "read error")
    /\ console' = Append(console, [msg |-> "Error reading file"])
    /\ attributes' = extract_attributes
    /\ lost' = extract_attributes
    /\ extract_attributes' = {}
    /\ f' = <<>>
    /\ pc' = "match"
    /\ UNCHANGED <<fs, args, interesting, fs0>>

\* extract_ldap_attributes: reading raises during the scan; the handler
\* prints the error and returns set().
ExtractReadFail ==
    /\ pc = "scan"
    /\ trace' = Append(trace, "read error")
    /\ console' = Append(console, [msg |-> "Error reading file"])
    /\ attributes' = {}
    /\ lost' = extract_attributes
    /\ extract_attributes' = {}
    /\ f' = <<>>
    /\ pc' = "match"
    /\ UNCHANGED <<fs, args, interesting, fs0>>

\* main: interesting = find_interesting_attributes(attributes, progress)
Match ==
    /\ pc = "match"
    /\ \E order \in Orderings(attributes) : interesting' = FindInteresting(order)
    /\ trace' = Append(trace, "match")
    /\ pc' = "report"
    /\ UNCHANGED <<fs, args, f, extract_attributes, attributes, console, lost, fs0>>

\* main: the console summary.
Report ==
    /\ pc = "report"
    /\ console' = console \o
          << [msg |-> "Analysis Complete!"],
             [msg |-> "Statistics", total |-> Cardinality(attributes),
              interesting |-> Len(interesting), file |-> args.file] >>
          \o [i \in 1..Len(interesting) |-> [msg |-> "interesting", attr |-> interesting[i]]]
    /\ trace' = Append(trace, "report")
    /\ pc' = "output"
    /\ UNCHANGED <<fs, args, f, extract_attributes, attributes, interesting, lost, fs0>>

\* Mutant: the interesting list is written instead of the full set.
SaveInterestingOnly ==
    /\ pc = "output"
    /\ OutputGiven(args)
    /\ fs' = [fs EXCEPT ![args.output[1]] = File(WriteLines(Sorted(interesting)))]
    /\ console' = Append(console, [msg |-> "Raw attributes list saved to", file |-> args.output[1]])
    /\ trace' = Append(trace, "write")
    /\ pc' = "done"
    /\ UNCHANGED <<args, f, extract_attributes, attributes, interesting, lost, fs0>>

\* main: save_raw_output(args.output, attributes, interesting)
SaveRawOutput ==
    /\ pc = "output"
    /\ OutputGiven(args)
    /\ \E order \in Orderings(attributes) :
          fs' = [fs EXCEPT ![args.output[1]] = File(WriteLines(Sorted(order)))]
    /\ console' = Append(console, [msg |-> "Raw attributes list saved to", file |-> args.output[1]])
    /\ trace' = Append(trace, "write")
    /\ pc' = "done"
    /\ UNCHANGED <<args, f, extract_attributes, attributes, interesting, lost, fs0>>

\* Mutant: without an output path the list is written to a default file.
NoOutputWritesDefault ==
    /\ pc = "output"
    /\ ~OutputGiven(args)
    /\ \E order \in Orderings(attributes) :
          fs' = [fs EXCEPT !["attrs.txt"] = File(WriteLines(Sorted(order)))]
    /\ trace' = Append(trace, "write")
    /\ pc' = "done"
    /\ UNCHANGED <<args, f, extract_attributes, attributes, interesting, console, lost, fs0>>

\* main: no output path, nothing is written.
NoOutput ==
    /\ pc = "output"
    /\ ~OutputGiven(args)
    /\ pc' = "done"
    /\ UNCHANGED <<fs, args, f, extract_attributes, attributes, interesting, console, trace, lost, fs0>>

Next ==
    \/ CheckExists
    \/ ExtractOpen
    \/ ExtractOpenFail
    \/ ExtractLine
    \/ ExtractReturn
    \/ ExtractReadFail
    \/ Match
    \/ Report
    \/ SaveRawOutput
    \/ NoOutput

Spec == Init /\ [][Next]_vars

(* ------------------------------ the claims ------------------------------ *)

InTrace(e) == \E i \in 1..Len(trace) : trace[i] = e

\* extract_ldap_attributes has returned to main without an error.
ReadOK == InTrace("extract") /\ ~InTrace("read error") /\ pc \in {"match", "report", "output", "done"}

\* extract_ldap_attributes has just returned to main without an error.
Extracted == pc = "match" /\ ~InTrace("read error")

\* find_interesting_attributes has returned to main.
Matched == InTrace("match")

\* The lines of the input file as it was when the run started.
InputLines == SplitLines(fs0[args.file].data)

HasColon(line) == \E i \in 1..Len(line) : line[i] = ":"

FirstColon(line) == CHOOSE i \in 1..Len(line) : line[i] = ":" /\ \A j \in 1..(i - 1) : line[j] # ":"

\* s without its leading and trailing whitespace, stated by positions.
Trimmed(s) ==
    IF \A i \in 1..Len(s) : IsSpace(s[i]) THEN <<>>
    ELSE LET a == CHOOSE i \in 1..Len(s) : ~IsSpace(s[i]) /\ \A j \in 1..(i - 1) : IsSpace(s[j])
             b == CHOOSE i \in 1..Len(s) : ~IsSpace(s[i]) /\ \A j \in (i + 1)..Len(s) : IsSpace(s[j])
         IN  SubSeq(s, a, b)

\* The trimmed text before the first colon of a line that has one.
Prefix(line) == Trimmed(SubSeq(line, 1, FirstColon(line) - 1))

ExpectedAttributes(L) ==
    { Prefix(L[i]) : i \in {k \in 1..Len(L) : HasColon(L[k]) /\ L[k][1] # "#"} } \ {<<>>}

\* C1: when the input file is read without error, the extracted set is exactly
\* the set of non-empty trimmed texts before the first colon of the lines that
\* contain a colon and do not start with '#'.
C1_ExtractExact == ReadOK => attributes = ExpectedAttributes(InputLines)

\* A run read, without error, a file holding a comment line with a colon, a
\* line with a blank prefix and a line whose prefix needed trimming.
C1_Witness ==
    LET L == InputLines
        colon == {i \in 1..Len(L) : HasColon(L[i])}
    IN  /\ ReadOK
        /\ attributes # {}
        /\ \E i \in colon : L[i][1] = "#"
        /\ \E i \in colon : L[i][1] # "#" /\ Prefix(L[i]) = <<>>
        /\ \E i \in colon :
              /\ L[i][1] # "#"
              /\ Prefix(L[i]) # SubSeq(L[i], 1, FirstColon(L[i]) - 1)
              /\ Prefix(L[i]) # <<>>

\* a < b in lexicographic order, stated by the first position where they differ.
LexLess(a, b) ==
    \E k \in 1..Len(b) :
        /\ k - 1 <= Len(a)
        /\ \A m \in 1..(k - 1) : a[m] = b[m]
        /\ (k > Len(a) \/ CodePoint(a[k]) < CodePoint(b[k]))

\* The 13 keywords of the keyword list, as a set.
FixedKeywords ==
    { <<"c", "a", "s", "c", "a", "d", "e">>,
      <<"l", "e", "g", "a", "c", "y">>,
      <<"p", "w", "d">>,
      <<"p", "a", "s", "s", "w", "o", "r", "d">>,
      <<"s", "e", "c", "r", "e", "t">>,
      <<"c", "r", "e", "d">>,
      <<"h", "a", "s", "h">>,
      <<"k", "e", "y">>,
      <<"b", "a", "c", "k", "u", "p">>,
      <<"a", "d", "m", "i", "n">>,
      <<"s", "e", "r", "v", "i", "c", "e">>,
      <<"o", "l", "d">>,
      <<"t", "e", "m", "p">> }

\* The lowercased name holds one of the keywords at some position.
HasKeyword(a) ==
    \E k \in FixedKeywords, i \in 1..Len(a) :
        /\ i + Len(k) - 1 <= Len(a)
        /\ \A j \in 1..Len(k) : LowerChar(a[i + j - 1]) = k[j]

InList(l, x) == \E i \in 1..Len(l) : l[i] = x

\* C2: the interesting list holds only members of the attribute set, is in
\* ascending lexicographic order of the original-case names, and holds an
\* attribute exactly when its lowercased name contains one of the 13 keywords.
C2_InterestingExact ==
    Matched =>
        /\ Cardinality(FixedKeywords) = 13
        /\ {keywords[n] : n \in 1..Len(keywords)} = FixedKeywords
        /\ \A i \in 1..Len(interesting) : interesting[i] \in attributes
        /\ \A i, j \in 1..Len(interesting) : i < j => ~LexLess(interesting[j], interesting[i])
        /\ \A a \in attributes : InList(interesting, a) <=> HasKeyword(a)

\* Two interesting attributes whose order depends on case, beside one that is
\* not interesting.
C2_Witness ==
    /\ Matched
    /\ Len(interesting) >= 2
    /\ \E a \in attributes : ~InList(interesting, a)
    /\ \E i, j \in 1..Len(interesting) : IsUpper(interesting[i][1]) /\ IsLower(interesting[j][1])

\* Some console message of the given kind has been printed.
Printed(m) == \E i \in 1..Len(console) : console[i].msg = m

\* C3: when the input path does not exist, the run reports the error and ends
\* with no extraction, no matching and no output write, with or without -o;
\* every file, the one at the output path included, is left as it was.
C3_NotFoundStops ==
    ~fs0[args.file].exists =>
        /\ pc \in {"check", "done"}
        /\ trace = <<>>
        /\ fs = fs0
        /\ attributes = {} /\ interesting = <<>>
        /\ ~Printed("Statistics") /\ ~Printed("Raw attributes list saved to")
        /\ (pc = "done" => console[Len(console)] = [msg |-> "File not found", file |-> args.file])

\* A run on a missing input ended, with -o naming a file that exists.
C3_Witness ==
    /\ pc = "done"
    /\ ~fs0[args.file].exists
    /\ OutputGiven(args)
    /\ fs0[args.output[1]].exists
    /\ fs0[args.output[1]].data # <<>>

\* C4: when opening or reading the input fails, at any point of the scan, the
\* error is reported and the empty set is returned; the run goes on (it is
\* never stuck before its end), matching and reporting run with zero
\* attributes, and with an output path the output file is written, empty.
C4_ReadFailureContinues ==
    InTrace("read error") =>
        /\ Printed("Error reading file")
        /\ attributes = {}
        /\ pc \in {"match", "report", "output", "done"}
        /\ (pc # "done" => ENABLED Next)
        /\ (pc \in {"report", "output", "done"} => Matched /\ interesting = <<>>)
        /\ (pc \in {"output", "done"} =>
              \E i \in 1..Len(console) :
                  /\ console[i].msg = "Statistics"
                  /\ console[i].total = 0
                  /\ console[i].interesting = 0)
        /\ (pc = "done" /\ OutputGiven(args) =>
              /\ InTrace("write")
              /\ fs[args.output[1]] = File(<<>>))

\* A run whose read failed after some lines had contributed attributes has
\* ended, with -o naming a file that held text.
C4_Witness ==
    /\ pc = "done"
    /\ InTrace("read error")
    /\ lost # {}
    /\ OutputGiven(args)
    /\ fs0[args.output[1]].exists
    /\ fs0[args.output[1]].data # <<>>

\* The lines of the output file, and a line without its terminator.
OutputLines == SplitLines(fs[args.output[1]].data)

Body(line) == SubSeq(line, 1, Len(line) - 1)

\* C5: with an output path, once the run has ended past the report phase the
\* output file holds exactly the full attribute set: every line ends with a
\* newline and carries an attribute, there are as many lines as attributes,
\* and the lines are in strictly ascending lexicographic order (so each
\* attribute is there once and nothing of the old content is left).
C5_OutputExact ==
    (pc = "done" /\ InTrace("report") /\ OutputGiven(args)) =>
        /\ fs[args.output[1]].exists
        /\ Len(OutputLines) = Cardinality(attributes)
        /\ \A i \in 1..Len(OutputLines) :
              /\ OutputLines[i][Len(OutputLines[i])] = "\n"
              /\ Body(OutputLines[i]) \in attributes
        /\ \A i, j \in 1..Len(OutputLines) :
              i < j => LexLess(Body(OutputLines[i]), Body(OutputLines[j]))

\* A run wrote three attributes, one of them not interesting, over a file
\* that held other text.
C5_Witness ==
    /\ pc = "done"
    /\ InTrace("write")
    /\ fs0[args.output[1]].exists
    /\ fs0[args.output[1]].data = OldOutput
    /\ Cardinality(attributes) >= 3
    /\ \E a \in attributes : ~InList(interesting, a)
    /\ interesting # <<>>

\* A line that starts with '#' or has no colon.
Ignorable(line) == line[1] = "#" \/ ~HasColon(line)

\* The lines l without those at the positions in D.
Without(l, D) ==
    LET keep == {i \in 1..Len(l) : i \notin D}
        nth(k) == CHOOSE i \in keep : Cardinality({j \in keep : j < i}) = k - 1
    IN  [k \in 1..Cardinality(keep) |-> nth(k)]

Removed(l, D) == LET w == Without(l, D) IN [k \in 1..Len(w) |-> l[w[k]]]

\* The lines l with x put in after position n.
Inserted(l, n, x) == SubSeq(l, 1, n) \o <<x>> \o SubSeq(l, n + 1, Len(l))

IgnorablePool == {l \o <<"\n">> : l \in {q \in LinePool : Ignorable(q)}}

\* C6: lines that start with '#' and lines without a colon contribute nothing:
\* extraction of the file with any set of such lines taken out, or with one
\* such line put in at any position, gives the set the run extracted.
C6_IgnoredLinesInert ==
    Extracted =>
        LET L == InputLines
        IN  /\ \A D \in SUBSET {i \in 1..Len(L) : Ignorable(L[i])} :
                  ExtractAll({}, Removed(L, D)) = attributes
            /\ \A n \in 0..Len(L), x \in IgnorablePool :
                  (n = Len(L) /\ n > 0 => L[n][Len(L[n])] = "\n")
                      => ExtractAll({}, Inserted(L, n, x)) = attributes

\* Extraction returned attributes from a file that also holds a comment line
\* with a colon and a line without a colon.
C6_Witness ==
    LET L == InputLines
    IN  /\ Extracted
        /\ attributes # {}
        /\ \E i \in 1..Len(L) : L[i][1] = "#" /\ HasColon(L[i])
        /\ \E i \in 1..Len(L) : L[i][1] # "#" /\ ~HasColon(L[i])

\* The number of keywords the lowercased name contains.
KeywordHits(a) == Cardinality({n \in 1..Len(keywords) : Contains(keywords[n], Lower(a))})

\* C7: no attribute is listed twice in the interesting list, however many
\* keywords it contains, and the interesting count printed never exceeds the
\* total count printed.
C7_NoDuplicates ==
    /\ Matched => \A i, j \in 1..Len(interesting) : interesting[i] = interesting[j] => i = j
    /\ \A i \in 1..Len(console) :
          console[i].msg = "Statistics" => console[i].interesting <= console[i].total

\* The statistics were printed for a set holding an attribute with three
\* keywords in its name.
C7_Witness ==
    /\ Printed("Statistics")
    /\ \E a \in attributes : KeywordHits(a) = 3 /\ InList(interesting, a)

\* C8: once extraction has returned without error the input file is as it was
\* before, and extracting again from the file as it is now gives the set the
\* run extracted.
C8_ExtractIdempotent ==
    (ReadOK /\ ~InTrace("write")) =>
        /\ fs = fs0
        /\ ExtractAll({}, SplitLines(fs[args.file].data)) = attributes

\* Extraction returned a set of two attributes or more and nothing has been
\* written yet.
C8_Witness ==
    /\ ReadOK
    /\ ~InTrace("write")
    /\ Cardinality(attributes) >= 2

\* The first character of a line that is not whitespace is '#', and it is not
\* the first character of the line.
IndentedHash(line) ==
    /\ IsSpace(line[1])
    /\ \E i \in 2..Len(line) : line[i] = "#" /\ \A j \in 1..(i - 1) : IsSpace(line[j])

\* C9: the comment test looks at the raw line: a line with whitespace before
\* its '#' and with a colon contributes its trimmed prefix, which starts with
\* '#'; the lines skipped as comments are those whose first character is '#'
\* (a file whose colon lines all start with '#' gives no attribute).
C9_RawCommentTest ==
    ReadOK =>
        LET L == InputLines
            colon == {i \in 1..Len(L) : HasColon(L[i])}
        IN  /\ \A i \in colon :
                  IndentedHash(L[i]) => Prefix(L[i]) \in attributes /\ Prefix(L[i])[1] = "#"
            /\ \A i \in colon :
                  (L[i][1] # "#" /\ Prefix(L[i]) # <<>>) => Prefix(L[i]) \in attributes
            /\ (\A i \in colon : L[i][1] = "#") => attributes = {}

\* A file with an indented '#' line and a true comment line, both with a
\* colon, was read: only the first gave an attribute.
C9_Witness ==
    LET L == InputLines
    IN  /\ ReadOK
        /\ Cardinality(attributes) = 1
        /\ \E i \in 1..Len(L) : HasColon(L[i]) /\ IndentedHash(L[i])
        /\ \E i \in 1..Len(L) : HasColon(L[i]) /\ L[i][1] = "#"

\* trace without the "read error" marks.
Phases == SelectSeq(trace, LAMBDA e : e # "read error")

PhaseOrder == <<"extract", "match", "report", "write">>

\* C10: in a run whose input path exists the phases come in the order extract,
\* match, report, each at most once; matching works on the set extraction
\* returned; the summary and the write come only after matching; and the
\* output file is written exactly when an output path was given.
C10_LinearPhases ==
    fs0[args.file].exists =>
        /\ Len(Phases) <= Len(PhaseOrder)
        /\ Phases = SubSeq(PhaseOrder, 1, Len(Phases))
        /\ (Matched => pc \in {"report", "output", "done"})
        /\ (Matched => {interesting[i] : i \in 1..Len(interesting)} = {a \in attributes : HasKeyword(a)})
        /\ (~Matched => interesting = <<>>)
        /\ (Printed("Statistics") <=> InTrace("report"))
        /\ (Printed("Raw attributes list saved to") <=> InTrace("write"))
        /\ (fs # fs0 => InTrace("write"))
        /\ (InTrace("write") => OutputGiven(args))
        /\ (pc = "done" => (InTrace("write") <=> OutputGiven(args)))
        /\ (pc = "done" => InTrace("report"))

\* A run on an existing input, read without error, has ended after writing
\* its output, with a non-empty interesting list.
C10_Witness ==
    /\ pc = "done"
    /\ fs0[args.file].exists
    /\ ReadOK
    /\ InTrace("write")
    /\ interesting # <<>>
    /\ fs # fs0

====
